---- MODULE Spec2Model ----
\* A model of package args (src/args.go): the tokenizer run by init(), the
\* registry filled by Register, the queries Using and Value, and PrintUsage.
\*
\* A Go string is modelled as a sequence of one-character strings, so that
\* substring search, prefix trimming and splitting are computed, not assumed.
\* A Go map[string]string is a function whose DOMAIN is its set of keys.
EXTENDS Integers, Sequences, FiniteSets, TLC

VARIABLES osArgs, Args, registered, last, pc

vars == <<osArgs, Args, registered, last, pc>>

-----------------------------------------------------------------------------
\* Bounds of the model.

\* Most tokens after the program path in an invocation.
MaxArgs == 2
\* Most characters, in total, of the tokens after the program path (SpecTok).
MaxChars == 5
\* Most descriptors the model lets Register accept.
MaxRegistered == 2

-----------------------------------------------------------------------------
\* Strings.

Chars == {"-", "=", "a", "b"}

EmptyString == <<>>
ProgPath == <<"p">>

s_flag == <<"f", "l", "a", "g">>
s_f == <<"f">>
s_val == <<"v", "a", "l">>
s_v == <<"v">>
s_5 == <<"5">>
s_d == <<"d">>
s_x == <<"x">>

\* strings.Contains(s, substr)
Contains(s, substr) ==
    \E i \in 0..(Len(s) - Len(substr)) : SubSeq(s, i + 1, i + Len(substr)) = substr

\* strings.Index(s, substr), 1-based; 0 when substr is absent (Go's -1).
Index(s, substr) ==
    IF Contains(s, substr)
    THEN CHOOSE i \in 1..(Len(s) - Len(substr) + 1) :
            /\ SubSeq(s, i, i + Len(substr) - 1) = substr
            /\ \A j \in 1..(i - 1) : SubSeq(s, j, j + Len(substr) - 1) # substr
    ELSE 0

\* strings.HasPrefix(s, prefix)
HasPrefix(s, prefix) ==
    Len(s) >= Len(prefix) /\ SubSeq(s, 1, Len(prefix)) = prefix

\* Mutant of TrimPrefix: removes the first occurrence of prefix wherever it is.
TrimFirst(s, prefix) ==
    IF Contains(s, prefix)
    THEN SubSeq(s, 1, Index(s, prefix) - 1)
            \o SubSeq(s, Index(s, prefix) + Len(prefix), Len(s))
    ELSE s

\* strings.TrimPrefix(s, prefix): s without the leading prefix, or s unchanged.
TrimPrefix(s, prefix) ==
    IF HasPrefix(s, prefix) THEN SubSeq(s, Len(prefix) + 1, Len(s)) ELSE s

\* strings.Split(s, sep) for a non-empty sep: every piece between separators.
RECURSIVE Split(_, _)
Split(s, sep) ==
    IF Index(s, sep) = 0
    THEN <<s>>
    ELSE <<SubSeq(s, 1, Index(s, sep) - 1)>>
            \o Split(SubSeq(s, Index(s, sep) + Len(sep), Len(s)), sep)

\* strings.Join(elems, sep)
RECURSIVE Join(_, _)
Join(elems, sep) ==
    IF Len(elems) = 0 THEN EmptyString
    ELSE IF Len(elems) = 1 THEN elems[1]
    ELSE elems[1] \o sep \o Join(Tail(elems), sep)

\* strings.Repeat(s, count)
RECURSIVE Repeat(_, _)
Repeat(s, count) == IF count <= 0 THEN EmptyString ELSE s \o Repeat(s, count - 1)

-----------------------------------------------------------------------------
\* Maps.

\* make(map[string]string)
EmptyMap == [k \in {} |-> EmptyString]

\* m[k] = v
MapSet(m, k, v) == [x \in (DOMAIN m) \cup {k} |-> IF x = k THEN v ELSE m[x]]

-----------------------------------------------------------------------------
\* The tokenizer.

\* Lines 49-53: the dash prefix of one token is trimmed.
stripDashes(a) ==
    IF Contains(a, <<"-", "-">>) THEN TrimPrefix(a, <<"-", "-">>)
    ELSE IF Contains(a, <<"-">>) THEN TrimPrefix(a, <<"-">>)
    ELSE a

\* Lines 49-61: the body of the loop, for one token a and the map m so far.
parseToken(m, a) ==
    LET t == stripDashes(a)
        keyValue == Split(t, <<"=">>)
    IN  IF Contains(t, <<"=">>) /\ Len(keyValue) > 1
        THEN MapSet(m, keyValue[1], keyValue[2])
        ELSE MapSet(m, t, EmptyString)

\* Lines 45-62: the loop over os.Args from index i (1-based; 1 is the path).
RECURSIVE parseLoop(_, _, _)
parseLoop(args, i, m) ==
    IF i > Len(args) THEN m
    ELSE parseLoop(args, i + 1, IF i = 1 THEN m ELSE parseToken(m, args[i]))

\* The map parseArgs leaves in Args for the invocation list args.
parsed(args) ==
    IF Len(args) <= 1 THEN EmptyMap ELSE parseLoop(args, 1, EmptyMap)

-----------------------------------------------------------------------------
\* The registry.

\* Inputs of Register: every combination of the fields Register reads; the
\* fields only PrintUsage reads (Description, Values) follow the other fields.
RegNames == {s_flag, s_f}
Shorts == {EmptyString, s_f}
Defaults == {EmptyString, s_5}

ArgInputs ==
    { [Name |-> n, Short |-> s,
       Description |-> IF n = s_flag THEN s_d ELSE EmptyString,
       DefaultValue |-> dv,
       Values |-> IF s = s_f THEN <<s_v, s_x>> ELSE <<>>,
       ExpectsValue |-> e]
      : n \in RegNames, s \in Shorts, dv \in Defaults, e \in BOOLEAN }

\* Names Using and Value are asked about.
QueryNames == RegNames \cup {EmptyString}

\* What the last call returned or did: bool is Using's result, str is Value's
\* result or the text PrintUsage handed to os.Stderr, panic is whether it panicked.
Ret(op, name, b, s, p) == [op |-> op, name |-> name, bool |-> b, str |-> s, panic |-> p]

\* Mutant of RegisterPanics: the check of r.Name against arg.Name is missing.
RegisterPanicsNoNameCheck(arg) ==
    \/ arg.DefaultValue # EmptyString /\ ~arg.ExpectsValue
    \/ \E i \in 1..Len(registered) :
          arg.Short # EmptyString /\ registered[i].Short = arg.Short

\* Mutant of RegisterPanics: shorthands are compared even when arg.Short is empty.
RegisterPanicsEmptyShortClash(arg) ==
    \/ arg.DefaultValue # EmptyString /\ ~arg.ExpectsValue
    \/ \E i \in 1..Len(registered) :
          \/ registered[i].Name = arg.Name
          \/ registered[i].Short = arg.Short

\* Lines 152-162: the conditions under which Register panics.
RegisterPanics(arg) ==
    \/ arg.DefaultValue # EmptyString /\ ~arg.ExpectsValue
    \/ \E i \in 1..Len(registered) :
          \/ registered[i].Name = arg.Name
          \/ arg.Short # EmptyString /\ registered[i].Short = arg.Short

\* Mutant of Register: the descriptor is put in front of the registry.
RegisterPrepend(arg) ==
    /\ pc = "main"
    /\ IF RegisterPanics(arg)
       THEN /\ registered' = registered
            /\ last' = Ret("Register", EmptyString, FALSE, EmptyString, TRUE)
       ELSE /\ Len(registered) < MaxRegistered
            /\ registered' = <<arg>> \o registered
            /\ last' = Ret("Register", EmptyString, FALSE, EmptyString, FALSE)
    /\ UNCHANGED <<osArgs, Args, pc>>

\* Register(arg), lines 151-164. A panic leaves the registry as it was; the
\* caller may recover from it and go on.
Register(arg) ==
    /\ pc = "main"
    /\ IF RegisterPanics(arg)
       THEN /\ registered' = registered
            /\ last' = Ret("Register", EmptyString, FALSE, EmptyString, TRUE)
       ELSE /\ Len(registered) < MaxRegistered
            /\ registered' = Append(registered, arg)
            /\ last' = Ret("Register", EmptyString, FALSE, EmptyString, FALSE)
    /\ UNCHANGED <<osArgs, Args, pc>>

-----------------------------------------------------------------------------
\* The queries.

\* Lines 176-183: the loop of Using over registered, from index i.
RECURSIVE usingLoop(_, _)
usingLoop(name, i) ==
    IF i > Len(registered) THEN FALSE
    ELSE IF registered[i].Name # name THEN usingLoop(name, i + 1)
    ELSE IF registered[i].Short \in DOMAIN Args THEN TRUE
    ELSE usingLoop(name, i + 1)

\* Mutant of Using: the loop does not compare r.Name with name.
UsingAnyShort(name) ==
    IF DOMAIN Args = {} THEN FALSE
    ELSE IF name \in DOMAIN Args THEN TRUE
    ELSE \E i \in 1..Len(registered) : registered[i].Short \in DOMAIN Args

\* Using(name), lines 168-185: the value returned.
Using(name) ==
    IF DOMAIN Args = {} THEN FALSE
    ELSE IF name \in DOMAIN Args THEN TRUE
    ELSE usingLoop(name, 1)

\* Lines 197-204: the loop of Value over registered, from index i.
RECURSIVE valueLoop(_, _)
valueLoop(name, i) ==
    IF i > Len(registered) THEN EmptyString
    ELSE IF registered[i].Name # name THEN valueLoop(name, i + 1)
    ELSE IF registered[i].Short \in DOMAIN Args THEN Args[registered[i].Short]
    ELSE valueLoop(name, i + 1)

\* Mutant of Value: the shorthand is looked up before the name.
ValueShortFirst(name) ==
    IF DOMAIN Args = {} THEN EmptyString
    ELSE IF \E i \in 1..Len(registered) :
               registered[i].Name = name /\ registered[i].Short \in DOMAIN Args
    THEN valueLoop(name, 1)
    ELSE IF name \in DOMAIN Args THEN Args[name]
    ELSE EmptyString

\* Value(name), lines 189-207: the value returned.
Value(name) ==
    IF DOMAIN Args = {} THEN EmptyString
    ELSE IF name \in DOMAIN Args THEN Args[name]
    ELSE valueLoop(name, 1)

\* Mutant of CallUsing: the lookup inserts the name it looks up.
CallUsingInserting(name) ==
    /\ pc = "main"
    /\ last' = Ret("Using", name, Using(name), EmptyString, FALSE)
    /\ Args' = MapSet(Args, name, EmptyString)
    /\ UNCHANGED <<osArgs, registered, pc>>

\* A call of Using(name): it assigns to no package variable.
CallUsing(name) ==
    /\ pc = "main"
    /\ last' = Ret("Using", name, Using(name), EmptyString, FALSE)
    /\ UNCHANGED <<osArgs, Args, registered, pc>>

\* A call of Value(name): it assigns to no package variable.
CallValue(name) ==
    /\ pc = "main"
    /\ last' = Ret("Value", name, FALSE, Value(name), FALSE)
    /\ UNCHANGED <<osArgs, Args, registered, pc>>

-----------------------------------------------------------------------------
\* The usage message.

\* CustomUsage (line 33): nothing in the package assigns it; it keeps its zero value.
CustomUsage == EmptyString

\* Lines 120-124: the flag of one descriptor, by its shorthand if it has one.
flagOf(arg) ==
    IF arg.Short = EmptyString THEN <<"-", "-">> \o arg.Name ELSE <<"-">> \o arg.Short

\* Mutant of flagsLoop: a space follows every flag, the last one too.
RECURSIVE flagsLoopTrailingSpace(_, _)
flagsLoopTrailingSpace(a, flags) ==
    IF a > Len(registered) THEN flags
    ELSE flagsLoopTrailingSpace(a + 1,
            flags \o flagOf(registered[a])
                  \o (IF registered[a].ExpectsValue THEN <<"=">> ELSE EmptyString)
                  \o <<" ">>)

\* Lines 119-131: the loop of availableFlags from index a (1-based), flags so far.
RECURSIVE flagsLoop(_, _)
flagsLoop(a, flags) ==
    IF a > Len(registered) THEN flags
    ELSE flagsLoop(a + 1,
            flags \o flagOf(registered[a])
                  \o (IF registered[a].ExpectsValue THEN <<"=">> ELSE EmptyString)
                  \o (IF Len(registered) # a THEN <<" ">> ELSE EmptyString))

\* availableFlags(), lines 118-134.
availableFlags == flagsLoop(1, EmptyString)

\* Lines 138-145: the loop of argNameMaxLen from index i, max so far.
RECURSIVE maxLenLoop(_, _)
maxLenLoop(i, max) ==
    IF i > Len(registered) THEN max
    ELSE IF Len(registered[i].Name) < max THEN maxLenLoop(i + 1, max)
    ELSE maxLenLoop(i + 1, Len(registered[i].Name))

\* argNameMaxLen(), lines 137-148.
argNameMaxLen == maxLenLoop(1, 0)

\* Lines 70-108: the usage line of one descriptor.
argumentUsage(arg, maxArgNameLen) ==
    LET suffix == IF arg.ExpectsValue THEN <<"=">> ELSE <<" ">>
        short == arg.Short \o suffix
        name == arg.Name \o suffix
    IN  <<"\t">>
        \o (IF arg.Short # EmptyString
            THEN <<" ", "-">> \o short \o <<" ">>
            ELSE <<" ", " ", " ", " ">>)
        \o <<"\t", " ", "-", "-">> \o name \o <<" ">>
        \o (IF Len(arg.Name) < maxArgNameLen
            THEN Repeat(<<" ">>, maxArgNameLen - Len(arg.Name))
            ELSE EmptyString)
        \o <<"\t">>
        \o (IF arg.Description # EmptyString
            THEN <<" ">> \o arg.Description ELSE EmptyString)
        \o (IF Len(arg.Values) # 0
            THEN <<" ", "[">> \o Join(arg.Values, <<",", " ">>) \o <<"]">>
            ELSE EmptyString)
        \o (IF arg.DefaultValue # EmptyString
            THEN <<" ", "[", "d", "e", "f", "a", "u", "l", "t", "=">>
                    \o arg.DefaultValue \o <<"]">>
            ELSE EmptyString)
        \o <<"\n">>

\* Lines 69-109: the usage lines of the descriptors from index i on.
RECURSIVE usageLines(_)
usageLines(i) ==
    IF i > Len(registered) THEN EmptyString
    ELSE argumentUsage(registered[i], argNameMaxLen) \o usageLines(i + 1)

\* Lines 67-109: the text PrintUsage builds.
argumentsUsage ==
    <<"U", "S", "A", "G", "E", ":", " ">> \o osArgs[1] \o <<" ">> \o CustomUsage
        \o <<" ", "[">> \o availableFlags \o <<"]", "\n">>
        \o <<"O", "p", "t", "i", "o", "n", "s", ":", "\n">>
        \o usageLines(1)

\* PrintUsage(), lines 66-115: the text is handed to os.Stderr; it panics when
\* the write fails, which the environment decides.
PrintUsage ==
    /\ pc = "main"
    /\ \E failed \in BOOLEAN :
          last' = Ret("PrintUsage", EmptyString, FALSE, argumentsUsage, failed)
    /\ UNCHANGED <<osArgs, Args, registered, pc>>

-----------------------------------------------------------------------------
\* The program.

\* init(), lines 35-37, calls parseArgs(), lines 40-63, before any caller runs.
parseArgs ==
    /\ pc = "init"
    /\ Args' = parsed(osArgs)
    /\ pc' = "main"
    /\ last' = Ret("parseArgs", EmptyString, FALSE, EmptyString, FALSE)
    /\ UNCHANGED <<osArgs, registered>>

\* The state before init(), os.Args apart: Args and registered are nil.
Boot ==
    /\ Args = EmptyMap
    /\ registered = <<>>
    /\ last = Ret("none", EmptyString, FALSE, EmptyString, FALSE)
    /\ pc = "init"

\* Tokens of the invocations of Spec.
MainTokens ==
    { <<"-", "-">> \o s_flag,
      <<"-", "-">> \o s_flag \o <<"=">> \o s_val,
      <<"-">> \o s_f \o <<"=">> \o s_v,
      <<"-", "-", "=">> \o s_v }

\* os.Args: the program path, then up to MaxArgs of the tokens above.
MainInvocations ==
    { <<ProgPath>> \o t : t \in UNION { [1..k -> MainTokens] : k \in 0..MaxArgs } }

Init == osArgs \in MainInvocations /\ Boot

Next ==
    \/ parseArgs
    \/ \E arg \in ArgInputs : Register(arg)
    \/ \E name \in QueryNames : CallUsing(name)
    \/ \E name \in QueryNames : CallValue(name)
    \/ PrintUsage

Spec == Init /\ [][Next]_vars

\* The k tokens that the cut points c (the ends of the first k - 1 tokens)
\* make of the string flat.
CutAt(flat, c, k) ==
    [j \in 1..k |-> SubSeq(flat,
                           (IF j = 1 THEN 0 ELSE c[j - 1]) + 1,
                           IF j = k THEN Len(flat) ELSE c[j])]

\* The ways to cut a string of n characters into k tokens, empty ones included.
Cuts(n, k) ==
    { c \in [1..(k - 1) -> 0..n] : \A j \in 1..(k - 2) : c[j] <= c[j + 1] }

\* os.Args: the program path, then up to MaxArgs tokens over Chars of at most
\* MaxChars characters in total.
InitTok ==
    /\ \E n \in 0..MaxChars, k \in 0..MaxArgs :
          /\ k = 0 => n = 0
          /\ \E flat \in [1..n -> Chars], c \in Cuts(n, k) :
                osArgs = <<ProgPath>> \o CutAt(flat, c, k)
    /\ Boot

NextTok == parseArgs

\* The tokenizer alone, over every invocation list within the bounds.
SpecTok == InitTok /\ [][NextTok]_vars

-----------------------------------------------------------------------------
\* Helpers of the properties.

\* The descriptors of the registry, as a set of indices.
Regs == 1..Len(registered)

\* s is a prefix of t.
IsPrefix(s, t) == Len(s) <= Len(t) /\ SubSeq(t, 1, Len(s)) = s

\* The text of t before its first "=", all of t when it has none.
BeforeEq(t) ==
    IF Contains(t, <<"=">>) THEN SubSeq(t, 1, Index(t, <<"=">>) - 1) ELSE t

\* The text of t after its first "=", the empty string when it has none.
AfterEq(t) ==
    IF Contains(t, <<"=">>) THEN SubSeq(t, Index(t, <<"=">>) + 1, Len(t)) ELSE EmptyString

\* s without the first occurrence of sub, wherever it is.
WithoutFirst(s, sub) ==
    IF Contains(s, sub)
    THEN SubSeq(s, 1, Index(s, sub) - 1) \o SubSeq(s, Index(s, sub) + Len(sub), Len(s))
    ELSE s

\* The tokens after the program path, as a set of indices of os.Args.
Tokens == 2..Len(osArgs)

-----------------------------------------------------------------------------
\* C1: Using(name) returns true exactly when the table is not empty and name
\* is a key of it or a descriptor registered under name has its Short as a key.
C1_UsingContract ==
    last.op = "Using" =>
        last.bool =
            (/\ DOMAIN Args # {}
             /\ \/ last.name \in DOMAIN Args
                \/ \E i \in Regs : /\ registered[i].Name = last.name
                                   /\ registered[i].Short \in DOMAIN Args)

\* Using answered true for a name that is no key, through a registered shorthand.
C1_Witness ==
    /\ last.op = "Using"
    /\ last.bool
    /\ last.name \notin DOMAIN Args
    /\ \E i \in Regs : registered[i].Name = last.name /\ registered[i].Short = s_f

\* C2: Value(name) returns the value of the key name when name is a key, else
\* the value of the Short key of the descriptor registered under name, else the
\* empty string; it returns no value that is not in the table.
C2_ValueContract ==
    last.op = "Value" =>
        /\ last.str =
              IF last.name \in DOMAIN Args THEN Args[last.name]
              ELSE IF \E i \in Regs : /\ registered[i].Name = last.name
                                      /\ registered[i].Short \in DOMAIN Args
              THEN Args[registered[CHOOSE i \in Regs :
                                      registered[i].Name = last.name].Short]
              ELSE EmptyString
        /\ last.str \in {EmptyString} \cup {Args[k] : k \in DOMAIN Args}

\* Value answered with the value of the name key while the shorthand of its
\* descriptor is a key with another value.
C2_Witness ==
    /\ last.op = "Value"
    /\ last.name \in DOMAIN Args
    /\ \E i \in Regs : /\ registered[i].Name = last.name
                       /\ registered[i].Short \in DOMAIN Args
                       /\ Args[registered[i].Short] # Args[last.name]
    /\ last.str = Args[last.name]

\* C3: in the registry no two descriptors have the same Name, no two have the
\* same non-empty Short, and a non-empty DefaultValue comes with ExpectsValue.
C3_RegistryInvariant ==
    /\ \A i, j \in Regs :
          i # j => /\ registered[i].Name # registered[j].Name
                   /\ registered[i].Short # EmptyString
                         => registered[i].Short # registered[j].Short
    /\ \A i \in Regs :
          registered[i].DefaultValue # EmptyString => registered[i].ExpectsValue

\* Two descriptors are registered and a further Register has panicked.
C3_Witness ==
    /\ Len(registered) = 2
    /\ last.op = "Register"
    /\ last.panic

\* The conditions C4 names, of a descriptor arg against a registry reg.
C4_MustFail(arg, reg) ==
    \/ arg.DefaultValue # EmptyString /\ arg.ExpectsValue = FALSE
    \/ \E i \in 1..Len(reg) : reg[i].Name = arg.Name
    \/ arg.Short # EmptyString /\ \E i \in 1..Len(reg) : reg[i].Short = arg.Short

\* C4: Register(arg) fails exactly under the three conditions, and a failing
\* Register leaves the registry as it was, so that the same call fails again.
C4_RegisterFailsExactly ==
    [][\A arg \in ArgInputs :
          (last'.op = "Register" /\ Register(arg)) =>
             /\ last'.panic <=> C4_MustFail(arg, registered)
             /\ last'.panic => /\ registered' = registered
                               /\ C4_MustFail(arg, registered')]_vars

\* A Register has panicked against a registry of one descriptor.
C4_Witness ==
    /\ Len(registered) = 1
    /\ last.op = "Register"
    /\ last.panic

\* The dash stripping C5 claims: the first occurrence, wherever it is.
C5_ClaimedStrip(a) ==
    IF Contains(a, <<"-", "-">>) THEN WithoutFirst(a, <<"-", "-">>)
    ELSE IF Contains(a, <<"-">>) THEN WithoutFirst(a, <<"-">>)
    ELSE a

\* C5 as claimed: every token is recorded under the key of its form without
\* the first occurrence of "--" (or, having none, of "-"), wherever it appears.
C5_StripsFirstOccurrence ==
    pc = "main" =>
        DOMAIN Args = { BeforeEq(C5_ClaimedStrip(osArgs[i])) : i \in Tokens }

\* The dash stripping of the amended C5: a leading "--", or else a leading "-"
\* of a token that has no "--" anywhere.
C5_PrefixStrip(a) ==
    IF HasPrefix(a, <<"-", "-">>) THEN SubSeq(a, 3, Len(a))
    ELSE IF Contains(a, <<"-", "-">>) THEN a
    ELSE IF HasPrefix(a, <<"-">>) THEN SubSeq(a, 2, Len(a))
    ELSE a

\* C5 as amended: "--" is removed only from the start of a token, and a token
\* with "--" elsewhere is recorded unchanged; "-" is removed only from the
\* start of a token that has no "--".
C5_StripsPrefixOnly ==
    pc = "main" =>
        DOMAIN Args = { BeforeEq(C5_PrefixStrip(osArgs[i])) : i \in Tokens }

\* A token with "--" after its first character was tokenized and kept whole.
C5_Witness ==
    /\ pc = "main"
    /\ \E i \in Tokens :
          /\ osArgs[i] = <<"a", "-", "-", "b">>
          /\ osArgs[i] \in DOMAIN Args

\* C6 as claimed: a token is recorded under the text before the first "=" of
\* its dash-stripped form, with everything after that "=" as its value (the
\* empty string when it has no "="), and the last token of a key decides.
C6_SplitsOnFirstEquals ==
    pc = "main" =>
        \A i \in Tokens :
            LET t == stripDashes(osArgs[i])
            IN  /\ BeforeEq(t) \in DOMAIN Args
                /\ (\A j \in Tokens :
                        j > i => BeforeEq(stripDashes(osArgs[j])) # BeforeEq(t))
                      => Args[BeforeEq(t)] = AfterEq(t)

\* C7: a call of Using or Value changes neither the table nor the registry,
\* and the same call made again returns the same result.
C7_QueriesReadOnly ==
    [][(/\ last'.op \in {"Using", "Value"}
        /\ \E n \in QueryNames : CallUsing(n) \/ CallValue(n)) =>
          /\ Args' = Args
          /\ registered' = registered
          /\ \A m \in QueryNames : Using(m)' = Using(m) /\ Value(m)' = Value(m)
          /\ (last'.op = last.op /\ last'.name = last.name)
                => (last'.bool = last.bool /\ last'.str = last.str)]_vars

\* A query was answered over a table and a registry that are not empty.
C7_Witness ==
    /\ last.op \in {"Using", "Value"}
    /\ DOMAIN Args # {}
    /\ registered # <<>>

\* The entry of one descriptor in the flag summary, as C8 states it.
C8_Entry(d) ==
    (IF d.Short # EmptyString THEN <<"-">> \o d.Short ELSE <<"-", "-">> \o d.Name)
        \o (IF d.ExpectsValue THEN <<"=">> ELSE EmptyString)

\* The entries of the descriptors from index i on.
RECURSIVE C8_Entries(_)
C8_Entries(i) ==
    IF i > Len(registered) THEN <<>>
    ELSE <<C8_Entry(registered[i])>> \o C8_Entries(i + 1)

\* C8: availableFlags is the entries of the registered descriptors, in the
\* order of registration, joined by single spaces; PrintUsage prints it so.
C8_AvailableFlagsFormat ==
    /\ availableFlags = Join(C8_Entries(1), <<" ">>)
    /\ last.op = "PrintUsage" =>
          IsPrefix(<<"U", "S", "A", "G", "E", ":", " ">> \o osArgs[1] \o <<" ", " ", "[">>
                       \o Join(C8_Entries(1), <<" ">>) \o <<"]", "\n">>,
                   last.str)

\* The usage was printed for a descriptor with a shorthand that expects a
\* value and one without a shorthand that expects none.
C8_Witness ==
    /\ last.op = "PrintUsage"
    /\ Len(registered) = 2
    /\ \E i \in Regs : registered[i].Short # EmptyString /\ registered[i].ExpectsValue
    /\ \E i \in Regs : registered[i].Short = EmptyString /\ ~registered[i].ExpectsValue

\* C9: every step leaves the registry a prefix of what it becomes, and a
\* Register that does not panic makes it the old registry followed by arg.
C9_RegistryAppendOnly ==
    [][/\ IsPrefix(registered, registered')
       /\ Len(registered') <= Len(registered) + 1
       /\ \A arg \in ArgInputs :
             (last'.op = "Register" /\ ~last'.panic /\ Register(arg))
                => registered' = Append(registered, arg)]_vars

\* A second descriptor was registered after the first.
C9_Witness ==
    /\ Len(registered) = 2
    /\ last.op = "Register"
    /\ ~last.panic

\* C10 as claimed: a descriptor without a shorthand is used, or has a value,
\* only when its name is a key of the table.
C10_NoShortOnlyByName ==
    /\ (/\ last.op = "Using"
        /\ last.bool
        /\ \E i \in Regs : registered[i].Name = last.name
                             /\ registered[i].Short = EmptyString)
          => last.name \in DOMAIN Args
    /\ (/\ last.op = "Value"
        /\ last.str # EmptyString
        /\ \E i \in Regs : registered[i].Name = last.name
                             /\ registered[i].Short = EmptyString)
          => last.name \in DOMAIN Args

====
